---------------------------- MODULE Spec2Model ----------------------------
(***************************************************************************)
(* DMARC report ingestion: the IMAP fetcher (src/fetcher/imap_fetcher.py)  *)
(* and the manual importer (src/manual_import.py) over one PostgreSQL      *)
(* store.  The store is the committed contents of its five tables; the     *)
(* live fetcher and the batch importer are sequential processes that call  *)
(* the parser, the extractors and the store.                               *)
(***************************************************************************)
EXTENDS Integers, Sequences, FiniteSets, TLC

(***************************************************************************)
(* Bounds of the model.                                                    *)
(***************************************************************************)
\* emails one mailbox search returns at most
MaxEmails == 2
\* parts msg.walk() yields for one email at most
MaxParts == 2
\* files one batch run enumerates at most
MaxFiles == 2

(***************************************************************************)
(* XML documents.  An element that may be missing carries `present`; a     *)
(* leaf is its text, NONE when the child element is missing and "" when    *)
(* it is there with no text.                                               *)
(***************************************************************************)
NONE == "<none>"

\* int(text): the decimal texts of the model and their values; any other
\* text makes int() raise ValueError
IntOf == [t \in {"0", "1", "42", "50", "100", "1700000000", "1700086400"} |->
            CASE t = "0" -> 0
              [] t = "1" -> 1
              [] t = "42" -> 42
              [] t = "50" -> 50
              [] t = "100" -> 100
              [] t = "1700000000" -> 1700000000
              [] t = "1700086400" -> 1700086400]

IsIntText(t) == t \in DOMAIN IntOf

\* datetime.fromtimestamp(n)
fromtimestamp(n) == [epoch |-> n]

Meta(org, mail, extra, rid, b, e) ==
    [present |-> TRUE, org_name |-> org, email |-> mail,
     extra_contact_info |-> extra, report_id |-> rid,
     date_range |-> [present |-> TRUE, begin |-> b, end |-> e]]

Policy(dom, ak, as, pp, spp, pc) ==
    [present |-> TRUE, domain |-> dom, adkim |-> ak, aspf |-> as,
     p |-> pp, sp |-> spp, pct |-> pc]

Row(ip, cnt, disp, dk, sf) ==
    [present |-> TRUE, source_ip |-> ip, count |-> cnt,
     policy_evaluated |-> [present |-> TRUE, disposition |-> disp,
                           dkim |-> dk, spf |-> sf]]

Identifiers(hf, ef, et) ==
    [present |-> TRUE, header_from |-> hf, envelope_from |-> ef,
     envelope_to |-> et]

AuthResults(dk, sf) == [present |-> TRUE, dkim |-> dk, spf |-> sf]

NoAuthResults == [present |-> FALSE, dkim |-> <<>>, spf |-> <<>>]

DkimElem(dom, sel, res, human) ==
    [present |-> TRUE, domain |-> dom, selector |-> sel, result |-> res,
     human_result |-> human]

SpfElem(dom, sc, res) ==
    [present |-> TRUE, domain |-> dom, scope |-> sc, result |-> res]

\* the record of the end-to-end scenario, with one DKIM and one SPF result
RecordOne ==
    [row |-> Row("203.0.113.5", "42", "none", "pass", "pass"),
     identifiers |-> Identifiers("example.com", NONE, NONE),
     auth_results |-> AuthResults(
         <<DkimElem("example.com", "s1", "pass", NONE)>>,
         <<SpfElem("example.com", NONE, "pass")>>)]

\* a record without auth_results
RecordTwo ==
    [row |-> Row("198.51.100.7", "1", "reject", "fail", "fail"),
     identifiers |-> Identifiers("example.com", "bounce.example.net", "rcpt.example.org"),
     auth_results |-> NoAuthResults]

\* The documents attachments and files carry, by the name of their bytes.
\* "A" and "A2" are two payloads with the same report identifier.
Docs ==
    [n \in {"A", "A2", "B", "BAD"} |->
       CASE n = "A" ->
              [wellformed |-> TRUE,
               report_metadata |-> Meta("google.com", "noreply@google.com", NONE,
                                        "abc123", "1700000000", "1700086400"),
               policy_published |-> Policy("example.com", NONE, NONE, "none", NONE, NONE),
               records |-> <<RecordOne>>]
         [] n = "A2" ->
              [wellformed |-> TRUE,
               report_metadata |-> Meta("yahoo.com", "dmarc@yahoo.com", "",
                                        "abc123", "1700000000", "1700086400"),
               policy_published |-> Policy("example.com", "s", "s", "reject", "quarantine", "50"),
               records |-> <<RecordTwo, RecordOne>>]
         [] n = "B" ->
              [wellformed |-> TRUE,
               report_metadata |-> Meta("outlook.com", "dmarc@outlook.com", NONE,
                                        "r-2", "1700000000", "1700086400"),
               policy_published |-> Policy("example.com", "r", "s", "quarantine", NONE, "100"),
               records |-> <<RecordTwo>>]
         [] n = "BAD" ->
              [wellformed |-> FALSE,
               report_metadata |-> [present |-> FALSE],
               policy_published |-> [present |-> FALSE],
               records |-> <<>>]]

\* the texts that are XML documents, by name
XmlTexts == DOMAIN Docs

(***************************************************************************)
(* Byte strings: the payload of an attachment, the content of a file.      *)
(* `kind` is what the bytes are, whatever the file is called: a zip        *)
(* archive, a gzip stream, or plain bytes holding the text `data`.         *)
(***************************************************************************)
RawBytes(text) == [kind |-> "raw", valid |-> TRUE, entries |-> <<>>, data |-> text]

\* entries: a sequence of [name, data], data the text of the entry
ZipBytes(entries) == [kind |-> "zip", valid |-> TRUE, entries |-> entries, data |-> ""]

GzipBytes(text) == [kind |-> "gzip", valid |-> TRUE, entries |-> <<>>, data |-> text]

\* a truncated archive, a truncated stream
CorruptZip == [kind |-> "zip", valid |-> FALSE, entries |-> <<>>, data |-> ""]

CorruptGzip == [kind |-> "gzip", valid |-> FALSE, entries |-> <<>>, data |-> ""]

\* Python's None where bytes are expected
NoneBytes == [kind |-> "none", valid |-> FALSE, entries |-> <<>>, data |-> ""]

\* `if xml_content:` : neither None nor b''
Truthy(content) == content.kind # "none" /\ ~(content.kind = "raw" /\ content.data = "")

\* xml_content.decode('utf-8')
decode(content) == IF content.kind = "raw" THEN content.data ELSE "<binary>"

(***************************************************************************)
(* DMARCParser                                                             *)
(***************************************************************************)
_get_text(element, tag, default) ==
    IF ~element.present THEN default
    ELSE IF element[tag] # NONE /\ element[tag] # "" THEN element[tag]
    ELSE default

\* an envelope_from that is never defaulted
envelope_from_as_given(identifiers, header_from) ==
    _get_text(identifiers, "envelope_from", "")

\* line 86: envelope_from falls back to header_from
get_envelope_from(identifiers, header_from) ==
    _get_text(identifiers, "envelope_from", header_from)

\* lines 76-99 and 101-123: one record element; `raises` when the code
\* dereferences a missing row
parse_record(record) ==
    LET row         == record.row
        identifiers == record.identifiers
        auth        == record.auth_results
        pe          == IF row.present THEN row.policy_evaluated ELSE [present |-> FALSE]
        count_text  == _get_text(row, "count", "0")
        header_from == _get_text(identifiers, "header_from", "")
        \* `if auth_results:` is the truth value of an Element: it has children
        has_auths   == auth.present /\ Len(auth.dkim) + Len(auth.spf) > 0
    IN  [raises |-> ~IsIntText(count_text) \/ ~row.present,
         data |->
           [source_ip     |-> _get_text(row, "source_ip", ""),
            count         |-> IF IsIntText(count_text) THEN IntOf[count_text] ELSE 0,
            disposition   |-> _get_text(pe, "disposition", ""),
            dkim_result   |-> _get_text(pe, "dkim", ""),
            spf_result    |-> _get_text(pe, "spf", ""),
            header_from   |-> header_from,
            envelope_from |-> get_envelope_from(identifiers, header_from),
            envelope_to   |-> _get_text(identifiers, "envelope_to", ""),
            has_auths     |-> has_auths,
            dkim_auths    |-> IF has_auths
                              THEN [i \in 1..Len(auth.dkim) |->
                                      [domain       |-> _get_text(auth.dkim[i], "domain", ""),
                                       selector     |-> _get_text(auth.dkim[i], "selector", ""),
                                       result       |-> _get_text(auth.dkim[i], "result", ""),
                                       human_result |-> _get_text(auth.dkim[i], "human_result", "")]]
                              ELSE <<>>,
            spf_auths     |-> IF has_auths
                              THEN [i \in 1..Len(auth.spf) |->
                                      [domain |-> _get_text(auth.spf[i], "domain", ""),
                                       scope  |-> _get_text(auth.spf[i], "scope", "mfrom"),
                                       result |-> _get_text(auth.spf[i], "result", "")]]
                              ELSE <<>>]]

\* the value parse_xml returns when it raises
NoReport == [report_id |-> NONE]

\* a subdomain policy that is never defaulted
sp_as_given(policy_pub, p) == _get_text(policy_pub, "sp", "")

\* line 54: sp falls back to p
get_sp(policy_pub, p) == _get_text(policy_pub, "sp", p)

\* an alignment mode that is never defaulted
alignment_as_given(policy_pub, tag) == _get_text(policy_pub, tag, "")

\* lines 51-52: adkim and aspf fall back to 'r'
get_alignment(policy_pub, tag) == _get_text(policy_pub, tag, "r")

\* line 55: the text handed to int() for pct
get_pct_text(policy_pub) == _get_text(policy_pub, "pct", "100")

\* lines 38-128 of parse_xml: the element tree `root` to the report
\* dictionary; ok = FALSE when a statement raises
parse_root(root, raw_xml) ==
    LET meta       == root.report_metadata
        date_range == IF meta.present THEN meta.date_range ELSE [present |-> FALSE]
        begin_text == _get_text(date_range, "begin", "")
        end_text   == _get_text(date_range, "end", "")
        policy_pub == root.policy_published
        p          == _get_text(policy_pub, "p", "")
        pct_text   == get_pct_text(policy_pub)
        recs       == [i \in 1..Len(root.records) |-> parse_record(root.records[i])]
        raises     == \/ ~meta.present
                      \/ ~IsIntText(begin_text)
                      \/ ~IsIntText(end_text)
                      \/ ~IsIntText(pct_text)
                      \/ \E i \in 1..Len(recs) : recs[i].raises
    IN IF raises THEN [ok |-> FALSE, report |-> NoReport]
       ELSE [ok |-> TRUE,
             report |->
               [org_name           |-> _get_text(meta, "org_name", ""),
                email              |-> _get_text(meta, "email", ""),
                extra_contact_info |-> _get_text(meta, "extra_contact_info", ""),
                report_id          |-> _get_text(meta, "report_id", ""),
                date_range_begin   |-> fromtimestamp(IntOf[begin_text]),
                date_range_end     |-> fromtimestamp(IntOf[end_text]),
                domain             |-> _get_text(policy_pub, "domain", ""),
                adkim              |-> get_alignment(policy_pub, "adkim"),
                aspf               |-> get_alignment(policy_pub, "aspf"),
                p                  |-> p,
                sp                 |-> get_sp(policy_pub, p),
                pct                |-> IntOf[pct_text],
                raw_xml            |-> raw_xml,
                records            |-> [i \in 1..Len(recs) |-> recs[i].data]]]

\* parse_xml(xml_content): ET.fromstring (line 35), then the tree;
\* ok = FALSE when it raises
parse_xml(xml_content) ==
    IF \/ xml_content.kind # "raw"
       \/ xml_content.data \notin XmlTexts
       \/ ~Docs[xml_content.data].wellformed
    THEN [ok |-> FALSE, report |-> NoReport]
    ELSE parse_root(Docs[xml_content.data], decode(xml_content))

(***************************************************************************)
(* File names are sequences of components, the last one the suffix:        *)
(* <<"report", ".xml", ".gz">> is report.xml.gz.  <<>> is no filename.     *)
(***************************************************************************)
\* a test for the suffix anywhere in the name
name_contains(filename, suffix) == \E i \in 1..Len(filename) : filename[i] = suffix

endswith(filename, suffix) == Len(filename) > 0 /\ filename[Len(filename)] = suffix

\* zipfile.ZipFile(...) opens: the bytes are a readable archive
ZipOpens(content) == content.kind = "zip" /\ content.valid

\* the indices of the archive's entries named *.xml, in namelist() order
XmlEntries(content) ==
    {i \in 1..Len(content.entries) : endswith(content.entries[i].name, ".xml")}

Min(S) == CHOOSE x \in S : \A y \in S : x <= y

\* gzip.decompress(content) / gzip.open(path).read(): ok = FALSE when it raises
gunzip(content) ==
    IF content.kind = "gzip" /\ content.valid
    THEN [ok |-> TRUE, out |-> RawBytes(content.data)]
    ELSE IF content.kind = "raw" /\ content.data = ""
    THEN [ok |-> TRUE, out |-> RawBytes("")]
    ELSE [ok |-> FALSE, out |-> NoneBytes]

(***************************************************************************)
(* IMAPFetcher.extract_xml_from_attachment: bytes, or NoneBytes            *)
(***************************************************************************)
extract_xml_from_attachment(part) ==
    LET filename == part.filename
        content  == part.payload
    IN  IF Len(filename) = 0 THEN NoneBytes
        ELSE IF endswith(filename, ".zip")
        THEN IF ZipOpens(content) /\ XmlEntries(content) # {}
             THEN RawBytes(content.entries[Min(XmlEntries(content))].data)
             ELSE NoneBytes
        ELSE IF endswith(filename, ".gz")
        THEN gunzip(content).out
        ELSE IF endswith(filename, ".xml")
        THEN content
        ELSE NoneBytes

(***************************************************************************)
(* ManualImporter.extract_xml_from_file: a list of byte strings            *)
(***************************************************************************)
RECURSIVE ReadEntries(_, _)
ReadEntries(content, i) ==
    IF i > Len(content.entries) THEN <<>>
    ELSE (IF endswith(content.entries[i].name, ".xml")
          THEN <<RawBytes(content.entries[i].data)>>
          ELSE <<>>) \o ReadEntries(content, i + 1)

extract_xml_from_file(file) ==
    LET filepath == file.path
        content  == file.content
    IN  IF endswith(filepath, ".zip")
        THEN IF ZipOpens(content) THEN ReadEntries(content, 1) ELSE <<>>
        ELSE IF endswith(filepath, ".gz")
        THEN IF gunzip(content).ok THEN <<gunzip(content).out>> ELSE <<>>
        ELSE IF endswith(filepath, ".xml")
        THEN <<content>>
        ELSE <<>>

(***************************************************************************)
(* The store: the committed rows of the five tables.  A row's id is the    *)
(* next value of its table's serial; rows are never deleted, so it is the  *)
(* number of rows plus one.                                                *)
(***************************************************************************)
EmptyDb ==
    [reports |-> {}, records |-> {}, dkim_auth |-> {}, spf_auth |-> {},
     processed_emails |-> {}]

NextId(table) == Cardinality(table) + 1

ReportIds(d) == {r.report_id : r \in d.reports}

\* a reports table without the constraint: no INSERT fails on a duplicate
reports_without_key(d, report_id) == FALSE

\* the unique constraint on reports.report_id: an INSERT of a report
\* identifier that has a row fails
reports_report_id_key(d, report_id) == report_id \in ReportIds(d)

\* SelectReport when the existence check is left out
SelectNothing(d, report_id) == {}

\* lines 160-164: SELECT id FROM reports WHERE report_id = %s
SelectReport(d, report_id) == {r \in d.reports : r.report_id = report_id}

\* record.get('dkim_auths', []), record.get('spf_auths', [])
get_dkim_auths(record) == IF record.has_auths THEN record.dkim_auths ELSE <<>>

\* get_spf_auths when the key it reads is misspelt: the default, []
no_auths(record) == <<>>

get_spf_auths(record) == IF record.has_auths THEN record.spf_auths ELSE <<>>

\* The INSERT statements store_report issues for report_data, in order:
\* the reports row, then per record its row, its DKIM rows, its SPF rows.
RECURSIVE RecordStatements(_, _)
RecordStatements(records, i) ==
    IF i > Len(records) THEN <<>>
    ELSE <<[t |-> "records", rec |-> i, idx |-> 0]>>
         \o [j \in 1..Len(get_dkim_auths(records[i])) |->
               [t |-> "dkim_auth", rec |-> i, idx |-> j]]
         \o [j \in 1..Len(get_spf_auths(records[i])) |->
               [t |-> "spf_auth", rec |-> i, idx |-> j]]
         \o RecordStatements(records, i + 1)

Statements(report_data) ==
    <<[t |-> "reports", rec |-> 0, idx |-> 0]>> \o RecordStatements(report_data.records, 1)

\* lines 169-181
ReportRow(id, report_data) ==
    [id |-> id,
     org_name |-> report_data.org_name, email |-> report_data.email,
     extra_contact_info |-> report_data.extra_contact_info,
     report_id |-> report_data.report_id,
     date_range_begin |-> report_data.date_range_begin,
     date_range_end |-> report_data.date_range_end,
     domain |-> report_data.domain, adkim |-> report_data.adkim,
     aspf |-> report_data.aspf, p |-> report_data.p, sp |-> report_data.sp,
     pct |-> report_data.pct, raw_xml |-> report_data.raw_xml]

\* RecordRow when the INSERT is given the wrong key: the constant 0 where
\* the id the reports INSERT returned belongs
RecordRowUnlinked(id, report_pk, record) ==
    [id |-> id, report_id |-> 0, source_ip |-> record.source_ip,
     count |-> record.count, disposition |-> record.disposition,
     dkim_result |-> record.dkim_result, spf_result |-> record.spf_result,
     header_from |-> record.header_from, envelope_from |-> record.envelope_from,
     envelope_to |-> record.envelope_to]

\* lines 185-200
RecordRow(id, report_pk, record) ==
    [id |-> id, report_id |-> report_pk, source_ip |-> record.source_ip,
     count |-> record.count, disposition |-> record.disposition,
     dkim_result |-> record.dkim_result, spf_result |-> record.spf_result,
     header_from |-> record.header_from, envelope_from |-> record.envelope_from,
     envelope_to |-> record.envelope_to]

\* lines 203-211
DkimRow(id, record_pk, dkim) ==
    [id |-> id, record_id |-> record_pk, domain |-> dkim.domain,
     selector |-> dkim.selector, result |-> dkim.result,
     human_result |-> dkim.human_result]

\* lines 214-219
SpfRow(id, record_pk, spf) ==
    [id |-> id, record_id |-> record_pk, domain |-> spf.domain,
     scope |-> spf.scope, result |-> spf.result]

\* The transaction after the statements stmts ran on tx, one after the
\* other; report_pk and record_pk are the ids RETURNING gave last.
RECURSIVE Execute(_, _, _, _, _)
Execute(tx, report_data, stmts, report_pk, record_pk) ==
    IF stmts = <<>> THEN tx
    ELSE
      LET s == Head(stmts)
      IN  CASE s.t = "reports" ->
                 LET id == NextId(tx.reports)
                 IN  Execute([tx EXCEPT !.reports = @ \cup {ReportRow(id, report_data)}],
                             report_data, Tail(stmts), id, record_pk)
            [] s.t = "records" ->
                 LET id == NextId(tx.records)
                 IN  Execute([tx EXCEPT !.records =
                                 @ \cup {RecordRow(id, report_pk, report_data.records[s.rec])}],
                             report_data, Tail(stmts), report_pk, id)
            [] s.t = "dkim_auth" ->
                 Execute([tx EXCEPT !.dkim_auth =
                             @ \cup {DkimRow(NextId(tx.dkim_auth), record_pk,
                                             get_dkim_auths(report_data.records[s.rec])[s.idx])}],
                         report_data, Tail(stmts), report_pk, record_pk)
            [] s.t = "spf_auth" ->
                 Execute([tx EXCEPT !.spf_auth =
                             @ \cup {SpfRow(NextId(tx.spf_auth), record_pk,
                                            get_spf_auths(report_data.records[s.rec])[s.idx])}],
                         report_data, Tail(stmts), report_pk, record_pk)

\* EndTransaction on a connection in autocommit mode: nothing to roll back
EndTransactionNoRollback(committed, tx, failed) == tx

\* lines 221-228: conn.commit() makes the transaction's rows the committed
\* ones; conn.rollback() in the except clause leaves the committed ones
EndTransaction(committed, tx, failed) == IF failed THEN committed ELSE tx

(***************************************************************************)
(* Database faults.  A call is given the number of the statement that      *)
(* fails, counted from 1 in the order the call issues them, 0 for none:    *)
(* 1 is get_connection(), 2 the first statement on the cursor, and so on,  *)
(* the last one conn.commit().  A number past the statements the call      *)
(* issues fails nothing.                                                   *)
(***************************************************************************)
\* the fault numbers worth giving to store_report(report_data)
StoreFaults(report_data) == 0..(Len(Statements(report_data)) + 3)

MarkFaults == 0..3

CheckFaults == 0..2

\* store_report when a report identifier that has a row makes it UPDATE the
\* row with the new payload
store_report_overwrite(d, report_data, fault) ==
    LET stmts == Statements(report_data)
        n     == Len(stmts)
    IN  IF fault = 1 \/ fault = 2
        THEN [db |-> d, ret |-> FALSE, raised |-> TRUE]
        ELSE IF SelectReport(d, report_data.report_id) # {}
        THEN [db |-> [d EXCEPT !.reports =
                        {IF r.report_id = report_data.report_id
                         THEN ReportRow(r.id, report_data) ELSE r : r \in @}],
              ret |-> FALSE, raised |-> FALSE]
        ELSE
          LET failing == IF reports_report_id_key(d, report_data.report_id) THEN 1
                         ELSE IF fault >= 3 /\ fault <= n + 2 THEN fault - 2
                         ELSE 0
              ran     == IF failing > 0 THEN failing - 1 ELSE n
              tx      == Execute(d, report_data, SubSeq(stmts, 1, ran), 0, 0)
              failed  == failing > 0 \/ fault = n + 3
          IN  [db |-> EndTransaction(d, tx, failed), ret |-> ~failed, raised |-> failed]

(***************************************************************************)
(* DatabaseManager.store_report: the committed rows after the call, its    *)
(* return value, and whether it raised                                     *)
(***************************************************************************)
store_report(d, report_data, fault) ==
    LET stmts == Statements(report_data)
        n     == Len(stmts)
    IN  IF fault = 1 \/ fault = 2
        THEN \* get_connection() raises before the try; a failing SELECT
             \* rolls back a transaction that wrote nothing
             [db |-> d, ret |-> FALSE, raised |-> TRUE]
        ELSE IF SelectReport(d, report_data.report_id) # {}
        THEN [db |-> d, ret |-> FALSE, raised |-> FALSE]
        ELSE
          LET \* the INSERT that fails, 0 when none does
              failing == IF reports_report_id_key(d, report_data.report_id) THEN 1
                         ELSE IF fault >= 3 /\ fault <= n + 2 THEN fault - 2
                         ELSE 0
              ran     == IF failing > 0 THEN failing - 1 ELSE n
              tx      == Execute(d, report_data, SubSeq(stmts, 1, ran), 0, 0)
              failed  == failing > 0 \/ fault = n + 3
          IN  [db |-> EndTransaction(d, tx, failed), ret |-> ~failed, raised |-> failed]

(***************************************************************************)
(* DatabaseManager.mark_email_processed: INSERT ... ON CONFLICT            *)
(* (message_id) DO NOTHING.  get_connection() is outside the try and       *)
(* raises; a failing INSERT or commit is rolled back, logged and not       *)
(* raised again.                                                           *)
(***************************************************************************)
\* mark_email_processed with ON CONFLICT (message_id) DO UPDATE: the row of a
\* message identifier is overwritten
mark_email_processed_upsert(d, message_id, subject, source, fault) ==
    IF fault = 1 THEN [db |-> d, raised |-> TRUE]
    ELSE IF fault = 2 \/ fault = 3 THEN [db |-> d, raised |-> FALSE]
    ELSE [db |-> [d EXCEPT !.processed_emails =
                     {r \in @ : r.message_id # message_id}
                     \cup {[message_id |-> message_id, subject |-> subject,
                             source |-> source]}],
          raised |-> FALSE]

mark_email_processed(d, message_id, subject, source, fault) ==
    IF fault = 1 THEN [db |-> d, raised |-> TRUE]
    ELSE IF fault = 2 \/ fault = 3 THEN [db |-> d, raised |-> FALSE]
    ELSE IF \E r \in d.processed_emails : r.message_id = message_id
    THEN [db |-> d, raised |-> FALSE]
    ELSE [db |-> [d EXCEPT !.processed_emails =
                     @ \cup {[message_id |-> message_id, subject |-> subject,
                              source |-> source]}],
          raised |-> FALSE]

(***************************************************************************)
(* DatabaseManager.is_email_processed                                      *)
(***************************************************************************)
is_email_processed(d, message_id, fault) ==
    IF fault = 1 \/ fault = 2 THEN [ret |-> FALSE, raised |-> TRUE]
    ELSE [ret |-> \E r \in d.processed_emails : r.message_id = message_id,
          raised |-> FALSE]

(***************************************************************************)
(* Emails.  An email is its headers and the parts msg.walk() yields, the   *)
(* message itself first; message_id and subject are NONE when the header   *)
(* is missing.  The walk is a generator: the fetcher sees one part at a    *)
(* time.                                                                   *)
(***************************************************************************)
Part(maintype, disposition, filename, payload) ==
    [maintype |-> maintype, disposition |-> disposition, filename |-> filename,
     payload |-> payload]

\* the archive of the fan-out scenario: two reports in one zip
ZipTwo == ZipBytes(<<[name |-> <<"a", ".xml">>, data |-> "A"],
                     [name |-> <<"b", ".xml">>, data |-> "B"]>>)

\* the parts with a Content-Disposition and a file name
AttachmentParts ==
    {Part("application", "attachment", <<"report", ".zip">>, ZipTwo),
     Part("application", "attachment", <<"report", ".zip">>, CorruptZip),
     Part("application", "attachment", <<"report", ".xml", ".gz">>, GzipBytes("B")),
     Part("application", "attachment", <<"report", ".xml", ".gz">>, CorruptGzip),
     Part("application", "attachment", <<"report", ".xml">>, RawBytes("A2")),
     Part("text", "attachment", <<"report", ".xml">>, RawBytes("BAD"))}

\* the message body: no Content-Disposition, no file name
BodyPart == Part("text", NONE, <<>>, RawBytes("see the attached report"))

\* the container of a multipart message
MultipartPart == Part("multipart", NONE, <<>>, NoneBytes)

\* a report shown inline: Content-Disposition: inline; filename="report.xml"
InlinePart == Part("application", "inline", <<"report", ".xml">>, RawBytes("B"))

PartSet == AttachmentParts \cup {BodyPart, MultipartPart, InlinePart}

NoPart == Part(NONE, NONE, <<>>, NoneBytes)

Headers ==
    {[message_id |-> "<m1@mail.example.net>", subject |-> "Report Domain: example.com"],
     [message_id |-> NONE, subject |-> NONE]}

NoEmail == [message_id |-> NONE, subject |-> NONE]

\* line 350: msg.get('Message-ID', f'unknown-{email_id}'), email_id the
\* bytes of the sequence number
MessageId(m, seqno) ==
    IF m.message_id = NONE THEN "unknown-b'" \o ToString(seqno) \o "'"
    ELSE m.message_id

\* line 351
Subject(m) == IF m.subject = NONE THEN "No Subject" ELSE m.subject

\* the files a batch run is given
Files == {[path |-> <<"reports/">> \o a.filename, content |-> a.payload] : a \in AttachmentParts}

(***************************************************************************)
(* Calls of the store, as the caller sees them                             *)
(***************************************************************************)
NoCall == [op |-> "none", key |-> "", existed |-> FALSE, failed |-> FALSE,
           ret |-> FALSE, raised |-> FALSE]

\* the statements a call of store_report(report_data) on d sends to the
\* database when none fails: the connection and the SELECT, then the
\* INSERTs and the commit when the SELECT finds no row
IssuedStatements(d, report_data) ==
    IF report_data.report_id \in ReportIds(d) THEN 2
    ELSE Len(Statements(report_data)) + 3

\* store_report(report_data) called on d with the database fault `fault`,
\* which ended as res; failed: the database failed a statement of the call
StoreCall(d, report_data, fault, res) ==
    [op |-> "store_report", key |-> report_data.raw_xml,
     existed |-> report_data.report_id \in ReportIds(d),
     failed |-> fault >= 1 /\ fault <= IssuedStatements(d, report_data),
     ret |-> res.ret, raised |-> res.raised]

MarkCall(d, message_id, fault, res) ==
    [op |-> "mark_email_processed", key |-> message_id,
     existed |-> \E r \in d.processed_emails : r.message_id = message_id,
     failed |-> fault # 0, ret |-> FALSE, raised |-> res.raised]

CheckCall(d, message_id, res) ==
    [op |-> "is_email_processed", key |-> message_id,
     existed |-> \E r \in d.processed_emails : r.message_id = message_id,
     failed |-> res.raised, ret |-> res.ret, raised |-> res.raised]

(***************************************************************************)
(* main(): FETCH_INTERVAL's default and the wait after a failed cycle      *)
(***************************************************************************)
fetch_interval == 3600

BackoffSeconds == 60

\* main_after_cycle without the `except Exception` clause: the error ends
\* the process
main_without_retry(raised) ==
    IF raised THEN [pc |-> "exited", seconds |-> 0]
    ELSE [pc |-> "sleep", seconds |-> fetch_interval]

\* lines 422-433: where the loop goes when fetch_reports returned or raised
\* an Exception, and for how long it sleeps there
main_after_cycle(raised) ==
    IF raised THEN [pc |-> "backoff", seconds |-> BackoffSeconds]
    ELSE [pc |-> "sleep", seconds |-> fetch_interval]

(***************************************************************************)
(* IMAPFetcher.fetch_reports, lines 362-374: one part of the walk.         *)
(***************************************************************************)
\* lines 362-370: the report a part makes the fetcher hand to store_report,
\* if any; tried: the part came as far as parse_xml
PartReport(part) ==
    LET xml_content == extract_xml_from_attachment(part)
    IN  IF \/ part.maintype = "multipart"
           \/ part.disposition = NONE
           \/ ~Truthy(xml_content)
        THEN [ok |-> FALSE, report |-> NoReport, tried |-> FALSE]
        ELSE [ok |-> parse_xml(xml_content).ok,
              report |-> parse_xml(xml_content).report, tried |-> TRUE]

\* the database faults that can meet the handling of a part
PartFaults(parsed) == IF parsed.ok THEN StoreFaults(parsed.report) ELSE {0}

\* handle_part when line 372 counts every call of store_report that
\* returned, whatever it returned
handle_part_counts_calls(d, count, parsed, fault) ==
    LET res == store_report(d, parsed.report, fault)
    IN  IF ~parsed.ok
        THEN [db |-> d, processed_count |-> count, call |-> NoCall, escapes |-> FALSE]
        ELSE [db |-> res.db,
              processed_count |-> count + (IF res.raised THEN 0 ELSE 1),
              call |-> StoreCall(d, parsed.report, fault, res),
              escapes |-> FALSE]

\* handle_part when line 373 catches the parser's errors only: an error of
\* store_report leaves the loop over the parts
handle_part_store_escapes(d, count, parsed, fault) ==
    LET res == store_report(d, parsed.report, fault)
    IN  IF ~parsed.ok
        THEN [db |-> d, processed_count |-> count, call |-> NoCall, escapes |-> FALSE]
        ELSE [db |-> res.db,
              processed_count |-> count + (IF res.ret THEN 1 ELSE 0),
              call |-> StoreCall(d, parsed.report, fault, res),
              escapes |-> res.raised]

\* handle_part without the try of line 369: an error of parse_xml or of
\* store_report leaves the loop over the parts
handle_part_unguarded(d, count, parsed, fault) ==
    LET res == store_report(d, parsed.report, fault)
    IN  IF ~parsed.ok
        THEN [db |-> d, processed_count |-> count, call |-> NoCall,
              escapes |-> parsed.tried]
        ELSE [db |-> res.db,
              processed_count |-> count + (IF res.ret THEN 1 ELSE 0),
              call |-> StoreCall(d, parsed.report, fault, res),
              escapes |-> res.raised]

\* lines 368-374, parsed the outcome of lines 362-370.  escapes: an
\* exception leaves the loop over the parts; every exception of parse_xml
\* and store_report is caught at line 373, and the extractor catches its own
handle_part(d, count, parsed, fault) ==
    LET res == store_report(d, parsed.report, fault)
    IN  IF ~parsed.ok
        THEN [db |-> d, processed_count |-> count, call |-> NoCall, escapes |-> FALSE]
        ELSE [db |-> res.db,
              processed_count |-> count + (IF res.ret THEN 1 ELSE 0),
              call |-> StoreCall(d, parsed.report, fault, res),
              escapes |-> FALSE]

\* skip_email when the lookup is not consulted
never_skip(check) == FALSE

\* lines 353-356: whether the email is skipped
skip_email(check) == check.ret

\* mark_after_walk when only an email that yielded a new report is marked
mark_only_new(count) == count > 0

\* line 377 is reached when the walk is over, whatever the count is
mark_after_walk(count) == TRUE

(***************************************************************************)
(* A corrupt attachment: a truncated archive or stream, or a file that is  *)
(* no XML; a valid one: a file, a stream or an archive of one entry that   *)
(* holds one report.                                                       *)
(***************************************************************************)
AsFile(part) == [path |-> part.filename, content |-> part.payload]

IsAttachment(part) == part.maintype # "multipart" /\ part.disposition # NONE

CorruptAttachment(part) ==
    /\ IsAttachment(part)
    /\ \/ part.payload.kind \in {"zip", "gzip"} /\ ~part.payload.valid
       \/ /\ Len(extract_xml_from_file(AsFile(part))) = 1
          /\ ~parse_xml(extract_xml_from_file(AsFile(part))[1]).ok

ValidAttachment(part) ==
    /\ IsAttachment(part)
    /\ Len(extract_xml_from_file(AsFile(part))) = 1
    /\ parse_xml(extract_xml_from_file(AsFile(part))[1]).ok

ValidReportId(part) == parse_xml(extract_xml_from_file(AsFile(part))[1]).report.report_id

\* what a part adds to hist when the store holds the reports ids and the
\* database failed the store call or not
Classify(part) ==
    [corrupt |-> CorruptAttachment(part),
     valid |-> IF ValidAttachment(part) THEN {ValidReportId(part)} ELSE {}]

(***************************************************************************)
(* State                                                                   *)
(***************************************************************************)
VARIABLES
    db,               \* the committed rows of the store
    pc,               \* where the live fetcher is
    cycle,            \* how the last call of fetch_reports ended
    seconds,          \* the time.sleep() the fetcher is in, 0 when in none
    email_id,         \* the sequence number of the email being handled, its
                      \* position in the list the search returned
    msg,              \* the headers of the email being handled
    part_no,          \* how many parts of msg the walk has yielded
    part,             \* the part handled last
    processed_count,  \* fetch_reports' count of newly stored reports
    outcome,          \* what became of the email handled last
    hist,             \* what the attachments of msg were
    last,             \* the call of the store the last step made
    bpc,              \* where the batch importer is
    bfiles,           \* how many files it has still to import
    bqueue,           \* the XML contents of its current file still to import
    total_imported,   \* import_paths' count of newly stored reports
    input,            \* the argument of a parser or extractor call made on
                      \* its own; NoInput in a run of the program
    output,           \* what that call returned
    writers           \* the calls of store_report that run concurrently, each
                      \* on a connection of its own; none in a run of the program

vars == <<db, pc, cycle, seconds, email_id, msg, part_no, part,
          processed_count, outcome, hist, last, bpc, bfiles, bqueue,
          total_imported, input, output, writers>>

liveVars == <<pc, cycle, seconds, email_id, msg, part_no, part,
              processed_count, outcome, hist>>

batchVars == <<bpc, bfiles, bqueue, total_imported>>

callVars == <<input, output, writers>>

NoWriters == <<>>

NoInput == [kind |-> "none"]

NoOutput == [stage |-> "none"]

\* corrupt: one of the email's attachments was corrupt; valid: the
\* identifiers of the reports of its valid attachments that were not stored
\* yet when their turn came and whose store call the database did not fail
\* store_failed: store_report raised for one of its attachments
NoHist == [corrupt |-> FALSE, valid |-> {}, store_failed |-> FALSE]

\* the program before main() runs
InitProgram ==
    /\ db = EmptyDb
    /\ pc = "loop"
    /\ cycle = "none"
    /\ seconds = 0
    /\ email_id = 0
    /\ msg = NoEmail
    /\ part_no = 0
    /\ part = NoPart
    /\ processed_count = 0
    /\ outcome = "none"
    /\ hist = NoHist
    /\ last = NoCall
    /\ bpc = "idle"
    /\ bfiles = 0
    /\ bqueue = <<>>
    /\ total_imported = 0

Init ==
    /\ InitProgram
    /\ input = NoInput
    /\ output = NoOutput
    /\ writers = NoWriters

(***************************************************************************)
(* The live fetcher: main() and IMAPFetcher.fetch_reports.  A step names   *)
(* the result of a call with \E x \in {call} : so that the call is          *)
(* evaluated once.                                                         *)
(***************************************************************************)
\* fetch_reports ended: its locals are gone, main sleeps
EndCycle(raised) ==
    /\ pc' = main_after_cycle(raised).pc
    /\ seconds' = main_after_cycle(raised).seconds
    /\ cycle' = IF raised THEN "raised" ELSE "returned"
    /\ email_id' = 0
    /\ msg' = NoEmail
    /\ part_no' = 0
    /\ part' = NoPart
    /\ outcome' = "none"
    /\ hist' = NoHist
    /\ last' = NoCall

\* lines 422-425: the loop calls fetch_reports
StartCycle ==
    /\ pc = "loop"
    /\ bpc = "idle"
    /\ pc' = "connect"
    /\ cycle' = "running"
    /\ processed_count' = 0
    /\ last' = NoCall
    /\ UNCHANGED <<db, seconds, email_id, msg, part_no, part, outcome, hist>>
    /\ UNCHANGED batchVars
    /\ UNCHANGED callVars

\* line 318: connect() opens the session, or raises out of fetch_reports
Connect ==
    /\ pc = "connect"
    /\ \/ /\ pc' = "search"
          /\ UNCHANGED <<cycle, seconds, email_id, msg, part_no, part,
                         outcome, hist, last>>
       \/ EndCycle(TRUE)
    /\ UNCHANGED <<db, processed_count>>
    /\ UNCHANGED batchVars
    /\ UNCHANGED callVars

\* lines 332-333: the search returns a list of sequence numbers, 1 first,
\* or raises; the finally clause then closes the session and the error
\* leaves fetch_reports.  The list is at most MaxEmails long and the loop
\* learns that it is exhausted when it gets there.
Search ==
    /\ pc = "search"
    /\ \/ /\ email_id' = 1
          /\ pc' = "fetch"
          /\ UNCHANGED <<cycle, seconds, msg, part_no, part, outcome, hist, last>>
       \/ EndCycle(TRUE)
    /\ UNCHANGED <<db, processed_count>>
    /\ UNCHANGED batchVars
    /\ UNCHANGED callVars

\* line 343 raises: the except clause of line 379 logs it and the loop goes
\* on with the next email
FetchFails ==
    /\ pc = "fetch"
    /\ email_id <= MaxEmails
    /\ email_id' = email_id + 1
    /\ msg' = NoEmail
    /\ outcome' = "fetch_failed"
    /\ hist' = NoHist
    /\ last' = NoCall
    /\ UNCHANGED <<db, pc, cycle, seconds, part_no, part, processed_count>>
    /\ UNCHANGED batchVars
    /\ UNCHANGED callVars

\* lines 343-358: the email is fetched and looked up in processed_emails;
\* an error of the lookup is caught at line 379
FetchEmail ==
    /\ pc = "fetch"
    /\ email_id <= MaxEmails
    /\ \E m \in Headers, fault \in CheckFaults :
         \E message_id \in {MessageId(m, email_id)} :
           \E check \in {is_email_processed(db, message_id, fault)} :
             /\ msg' = m
             /\ last' = CheckCall(db, message_id, check)
             /\ hist' = NoHist
             /\ IF check.raised \/ skip_email(check)
                THEN /\ outcome' = IF check.raised THEN "check_failed" ELSE "skipped"
                     /\ email_id' = email_id + 1
                     /\ UNCHANGED pc
                ELSE /\ outcome' = "processing"
                     /\ pc' = "parts"
                     /\ UNCHANGED email_id
    /\ part_no' = 0
    /\ part' = NoPart
    /\ UNCHANGED <<db, cycle, seconds, processed_count>>
    /\ UNCHANGED batchVars
    /\ UNCHANGED callVars

\* lines 361-374: the walk yields one more part
HandlePart ==
    /\ pc = "parts"
    /\ part_no < MaxParts
    /\ \E pt \in PartSet :
         \E parsed \in {PartReport(pt)}, class \in {Classify(pt)} :
           \E fault \in PartFaults(parsed) :
             \E step \in {handle_part(db, processed_count, parsed, fault)} :
               /\ part' = pt
               /\ db' = step.db
               /\ processed_count' = step.processed_count
               /\ last' = step.call
               /\ hist' = [corrupt |-> hist.corrupt \/ class.corrupt,
                           valid |-> IF step.call.failed THEN hist.valid
                                     ELSE hist.valid \cup (class.valid \ ReportIds(db)),
                           store_failed |-> hist.store_failed \/ step.call.raised]
               /\ IF step.escapes
                  THEN /\ pc' = "fetch"
                       /\ outcome' = "aborted"
                       /\ email_id' = email_id + 1
                       /\ part_no' = part_no + 1
                  ELSE /\ part_no' = part_no + 1
                       /\ UNCHANGED <<pc, outcome, email_id>>
    /\ UNCHANGED <<cycle, seconds, msg>>
    /\ UNCHANGED batchVars
    /\ UNCHANGED callVars

\* MarkEmail when a failure of mark_email_processed is not caught: it
\* leaves fetch_reports and the cycle ends
MarkEmailAborts ==
    /\ pc = "parts"
    /\ part_no >= 1
    /\ \E fault \in MarkFaults :
         \E message_id \in {MessageId(msg, email_id)} :
           \E res \in {mark_email_processed(db, message_id, Subject(msg), "imap", fault)} :
             /\ db' = res.db
             /\ last' = MarkCall(db, message_id, fault, res)
             /\ IF fault # 0
                THEN /\ pc' = main_after_cycle(TRUE).pc
                     /\ seconds' = main_after_cycle(TRUE).seconds
                     /\ cycle' = "raised"
                     /\ email_id' = 0
                     /\ msg' = NoEmail
                     /\ outcome' = "none"
                     /\ hist' = NoHist
                ELSE /\ pc' = "fetch"
                     /\ email_id' = email_id + 1
                     /\ outcome' = "marked"
                     /\ UNCHANGED <<cycle, seconds, msg, hist>>
    /\ part_no' = 0
    /\ part' = NoPart
    /\ UNCHANGED processed_count
    /\ UNCHANGED batchVars
    /\ UNCHANGED callVars

\* MarkEmail when an email with an attachment that could not be stored is
\* left unmarked, to be processed again
MarkEmailUnlessFailed ==
    /\ pc = "parts"
    /\ part_no >= 1
    /\ IF ~hist.store_failed
       THEN \E fault \in MarkFaults :
              \E message_id \in {MessageId(msg, email_id)} :
                \E res \in {mark_email_processed(db, message_id, Subject(msg), "imap", fault)} :
                  /\ db' = res.db
                  /\ last' = MarkCall(db, message_id, fault, res)
                  /\ outcome' = IF fault # 0 THEN "mark_failed" ELSE "marked"
       ELSE /\ outcome' = "unmarked"
            /\ last' = NoCall
            /\ UNCHANGED db
    /\ pc' = "fetch"
    /\ email_id' = email_id + 1
    /\ part_no' = 0
    /\ part' = NoPart
    /\ UNCHANGED <<cycle, seconds, msg, processed_count, hist>>
    /\ UNCHANGED batchVars
    /\ UNCHANGED callVars

\* line 377: the walk is exhausted, which it can be after the message
\* itself, and the email is marked; a failing INSERT is logged inside
\* mark_email_processed, a failing connection at line 379
MarkEmail ==
    /\ pc = "parts"
    /\ part_no >= 1
    /\ IF mark_after_walk(processed_count)
       THEN \E fault \in MarkFaults :
              \E message_id \in {MessageId(msg, email_id)} :
                \E res \in {mark_email_processed(db, message_id, Subject(msg), "imap", fault)} :
                  /\ db' = res.db
                  /\ last' = MarkCall(db, message_id, fault, res)
                  /\ outcome' = IF fault # 0 THEN "mark_failed" ELSE "marked"
       ELSE /\ outcome' = "unmarked"
            /\ last' = NoCall
            /\ UNCHANGED db
    /\ pc' = "fetch"
    /\ email_id' = email_id + 1
    /\ part_no' = 0
    /\ part' = NoPart
    /\ UNCHANGED <<cycle, seconds, msg, processed_count, hist>>
    /\ UNCHANGED batchVars
    /\ UNCHANGED callVars

\* lines 383-389: the list is exhausted; the finally clause closes the
\* session, which may raise, and fetch_reports returns the count
CloseSession ==
    /\ pc = "fetch"
    /\ \/ EndCycle(FALSE)
       \/ EndCycle(TRUE)
    /\ UNCHANGED <<db, processed_count>>
    /\ UNCHANGED batchVars
    /\ UNCHANGED callVars

\* lines 427 and 433: time.sleep() returns and the loop starts over; main
\* has dropped the count fetch_reports returned
WakeUp ==
    /\ pc \in {"sleep", "backoff"}
    /\ pc' = "loop"
    /\ seconds' = 0
    /\ cycle' = "none"
    /\ processed_count' = 0
    /\ UNCHANGED <<db, email_id, msg, part_no, part, outcome, hist, last>>
    /\ UNCHANGED batchVars
    /\ UNCHANGED callVars

\* lines 428-430: KeyboardInterrupt ends the loop, wherever the fetcher is
\* (the operator stops the fetcher between two batch runs)
Interrupt ==
    /\ pc \notin {"interrupted", "exited"}
    /\ bpc = "idle"
    /\ pc' = "interrupted"
    /\ seconds' = 0
    /\ cycle' = "none"
    /\ email_id' = 0
    /\ msg' = NoEmail
    /\ part_no' = 0
    /\ part' = NoPart
    /\ processed_count' = 0
    /\ outcome' = "none"
    /\ hist' = NoHist
    /\ last' = NoCall
    /\ UNCHANGED db
    /\ UNCHANGED batchVars
    /\ UNCHANGED callVars

LiveNext ==
    \/ StartCycle
    \/ Connect
    \/ Search
    \/ FetchFails
    \/ FetchEmail
    \/ HandlePart
    \/ MarkEmail
    \/ CloseSession
    \/ WakeUp

(***************************************************************************)
(* The batch importer: ManualImporter.import_paths, run while the fetcher  *)
(* is between two cycles or stopped (one writer at a time)                 *)
(***************************************************************************)
FetcherIdle == pc \in {"loop", "interrupted", "exited"}

\* lines 121-125 and 99-115: the paths resolve to n files
BatchStart ==
    /\ bpc = "idle"
    /\ FetcherIdle
    /\ \E n \in 1..MaxFiles : bfiles' = n
    /\ bpc' = "files"
    /\ bqueue' = <<>>
    /\ total_imported' = 0
    /\ last' = NoCall
    /\ UNCHANGED db
    /\ UNCHANGED liveVars
    /\ UNCHANGED callVars

\* BatchFile when the importer keeps a marker per file in processed_emails
BatchFileMarked ==
    /\ bpc = "files"
    /\ bfiles > 0
    /\ \E f \in Files :
         \E xml_contents \in {extract_xml_from_file(f)} :
           /\ bqueue' = xml_contents
           /\ bpc' = IF xml_contents = <<>> THEN "files" ELSE "contents"
    /\ bfiles' = bfiles - 1
    /\ last' = NoCall
    /\ db' = mark_email_processed(db, "reports/", "Manual import", "manual", 0).db
    /\ UNCHANGED total_imported
    /\ UNCHANGED liveVars
    /\ UNCHANGED callVars

\* lines 81-85: import_file extracts the contents of the next file
BatchFile ==
    /\ bpc = "files"
    /\ bfiles > 0
    /\ \E f \in Files :
         \E xml_contents \in {extract_xml_from_file(f)} :
           /\ bqueue' = xml_contents
           /\ bpc' = IF xml_contents = <<>> THEN "files" ELSE "contents"
    /\ bfiles' = bfiles - 1
    /\ last' = NoCall
    /\ UNCHANGED <<db, total_imported>>
    /\ UNCHANGED liveVars
    /\ UNCHANGED callVars

\* lines 86-95: one content is parsed and stored; an error is logged
BatchContent ==
    /\ bpc = "contents"
    /\ \E parsed \in {parse_xml(Head(bqueue))} :
           IF ~parsed.ok
           THEN /\ last' = NoCall
                /\ UNCHANGED <<db, total_imported>>
           ELSE \E fault \in StoreFaults(parsed.report) :
                  \E res \in {store_report(db, parsed.report, fault)} :
                      /\ db' = res.db
                      /\ last' = StoreCall(db, parsed.report, fault, res)
                      /\ total_imported' = total_imported + (IF res.ret THEN 1 ELSE 0)
    /\ bqueue' = Tail(bqueue)
    /\ bpc' = IF Tail(bqueue) = <<>> THEN "files" ELSE "contents"
    /\ UNCHANGED bfiles
    /\ UNCHANGED liveVars
    /\ UNCHANGED callVars

\* lines 135 and 163-164: import_paths returns the total
BatchEnd ==
    /\ bpc = "files"
    /\ bfiles = 0
    /\ bpc' = "idle"
    /\ last' = NoCall
    /\ UNCHANGED <<db, bfiles, bqueue, total_imported>>
    /\ UNCHANGED liveVars
    /\ UNCHANGED callVars

BatchNext ==
    \/ BatchStart
    \/ BatchFile
    \/ BatchContent
    \/ BatchEnd

Next ==
    \/ LiveNext
    \/ Interrupt
    \/ BatchNext

Spec == Init /\ [][Next]_vars

\* the fetcher alone: time.sleep() returns, and the loop of main, once it is
\* back at its head, calls fetch_reports
LiveSpec ==
    /\ Init
    /\ [][LiveNext \/ Interrupt]_vars
    /\ WF_vars(WakeUp)
    /\ WF_vars(StartCycle)

(***************************************************************************)
(* DatabaseManager called method by method by one writer, with any         *)
(* arguments and any database fault                                        *)
(***************************************************************************)
\* the normalized reports the parser makes of the documents
Reports == {parse_xml(RawBytes(n)).report : n \in {n \in XmlTexts : parse_xml(RawBytes(n)).ok}}

MessageIds == {MessageId(m, 1) : m \in Headers}

Subjects == {Subject(m) : m \in Headers}

CallStoreReport ==
    /\ \E report_data \in Reports :
         \E fault \in StoreFaults(report_data) :
           \E res \in {store_report(db, report_data, fault)} :
             /\ db' = res.db
             /\ last' = StoreCall(db, report_data, fault, res)
    /\ UNCHANGED liveVars
    /\ UNCHANGED batchVars
    /\ UNCHANGED callVars

CallMarkEmailProcessed ==
    /\ \E message_id \in MessageIds, subject \in Subjects, source \in {"imap", "manual"} :
         \E fault \in MarkFaults :
           \E res \in {mark_email_processed(db, message_id, subject, source, fault)} :
             /\ db' = res.db
             /\ last' = MarkCall(db, message_id, fault, res)
    /\ UNCHANGED liveVars
    /\ UNCHANGED batchVars
    /\ UNCHANGED callVars

CallIsEmailProcessed ==
    /\ \E message_id \in MessageIds, fault \in CheckFaults :
         \E res \in {is_email_processed(db, message_id, fault)} :
           last' = CheckCall(db, message_id, res)
    /\ UNCHANGED db
    /\ UNCHANGED liveVars
    /\ UNCHANGED batchVars
    /\ UNCHANGED callVars

StoreNext ==
    \/ CallStoreReport
    \/ CallMarkEmailProcessed
    \/ CallIsEmailProcessed

SpecStore == Init /\ [][StoreNext]_vars

(***************************************************************************)
(* parse_xml called on its own.  The element trees it is given: every      *)
(* combination of present, empty, absent and non-numeric children of       *)
(* report_metadata and policy_published around one record, and every       *)
(* sequence of up to MaxRecords records in an otherwise complete report.   *)
(* The report it returns is handed to store_report.                        *)
(***************************************************************************)
MaxRecords == 2

MetaSet ==
    {[present |-> FALSE]}
    \cup {[Meta("google.com", "noreply@google.com", NONE, "abc123", NONE, NONE)
             EXCEPT !.date_range = [present |-> FALSE]]}
    \cup {Meta(org, "noreply@google.com", NONE, rid, b, e) :
            org \in {NONE, "google.com"}, rid \in {NONE, "", "abc123"},
            b \in {NONE, "1700000000", "yesterday"}, e \in {NONE, "1700086400"}}

PolicySet ==
    {[present |-> FALSE]}
    \cup {Policy(dom, ak, as, pp, spp, pct) :
            dom \in {NONE, "example.com"}, ak \in {NONE, "r", "s"},
            as \in {NONE, "s"}, pp \in {NONE, "reject"},
            spp \in {NONE, "quarantine"}, pct \in {NONE, "50", "all"}}

RecordSet ==
    {RecordOne,
     RecordTwo,
     \* no row
     [RecordOne EXCEPT !.row = [present |-> FALSE]],
     \* a row without source_ip
     [RecordTwo EXCEPT !.row = Row(NONE, "1", "none", "pass", "pass")],
     \* a count that is no number
     [RecordTwo EXCEPT !.row = Row("198.51.100.7", "many", "none", "pass", "pass")],
     \* no identifiers
     [RecordOne EXCEPT !.identifiers = [present |-> FALSE]],
     \* envelope_to without envelope_from
     [RecordTwo EXCEPT !.identifiers = Identifiers("example.com", NONE, "rcpt.example.org")],
     \* an auth_results element without children
     [RecordTwo EXCEPT !.auth_results = AuthResults(<<>>, <<>>)]}

RecordSeqs == UNION {[1..k -> RecordSet] : k \in 0..MaxRecords}

Tree(meta, policy_pub, records) ==
    [wellformed |-> TRUE, report_metadata |-> meta,
     policy_published |-> policy_pub, records |-> records]

Trees ==
    {Tree(m, pol, <<RecordOne>>) : m \in MetaSet, pol \in PolicySet}
    \cup {Tree(Docs["A"].report_metadata, Docs["A2"].policy_published, rs) :
            rs \in RecordSeqs}

InitParse ==
    /\ InitProgram
    /\ input \in {[kind |-> "tree", root |-> t] : t \in Trees}
    /\ output = NoOutput
    /\ writers = NoWriters

\* parse_xml on the tree ET.fromstring returned
ParseInput ==
    /\ input.kind = "tree"
    /\ output.stage = "none"
    /\ \E r \in {parse_root(input.root, "T")} :
          output' = [stage |-> "parsed", ok |-> r.ok, report |-> r.report]
    /\ UNCHANGED <<db, last, input, writers>>
    /\ UNCHANGED liveVars
    /\ UNCHANGED batchVars

\* store_report(report_data) on what parse_xml returned
StoreOutput ==
    /\ output.stage = "parsed"
    /\ output.ok
    /\ \E fault \in StoreFaults(output.report) :
          \E res \in {store_report(db, output.report, fault)} :
             /\ db' = res.db
             /\ last' = StoreCall(db, output.report, fault, res)
    /\ output' = [output EXCEPT !.stage = "stored"]
    /\ UNCHANGED <<input, writers>>
    /\ UNCHANGED liveVars
    /\ UNCHANGED batchVars

ParseNext ==
    \/ ParseInput
    \/ StoreOutput

SpecParse == InitParse /\ [][ParseNext]_vars

(***************************************************************************)
(* The two extractors called on their own, on every pairing of a file      *)
(* name with a content.                                                    *)
(***************************************************************************)
FileNames ==
    {<<>>, <<"report", ".zip">>, <<"report", ".xml", ".gz">>, <<"report", ".xml">>,
     <<"report", ".xml", ".bak">>, <<"report", ".zip", ".txt">>, <<"report", ".XML">>}

Contents ==
    {ZipTwo,
     ZipBytes(<<[name |-> <<"a", ".xml">>, data |-> "A"]>>),
     ZipBytes(<<[name |-> <<"readme", ".txt">>, data |-> "see the attached report"]>>),
     CorruptZip,
     GzipBytes("B"),
     CorruptGzip,
     RawBytes("A2"),
     RawBytes("BAD"),
     RawBytes("")}

InitExtract ==
    /\ InitProgram
    /\ input \in {[kind |-> "bytes", filename |-> f, content |-> c] :
                    f \in FileNames, c \in Contents}
    /\ output = NoOutput
    /\ writers = NoWriters

\* extract_xml_from_attachment on the part, extract_xml_from_file on the file
ExtractInput ==
    /\ input.kind = "bytes"
    /\ output.stage = "none"
    /\ output' =
         [stage |-> "extracted",
          attachment |-> extract_xml_from_attachment(
                            Part("application", "attachment", input.filename, input.content)),
          file |-> extract_xml_from_file(
                      [path |-> <<"reports/">> \o input.filename, content |-> input.content])]
    /\ UNCHANGED <<db, last, input, writers>>
    /\ UNCHANGED liveVars
    /\ UNCHANGED batchVars

SpecExtract == InitExtract /\ [][ExtractInput]_vars

(***************************************************************************)
(* Concurrent writers: MaxWriters calls of store_report, each on its own    *)
(* connection, over one database at its default isolation level, READ      *)
(* COMMITTED.  A writer sees the committed rows only.  An INSERT of a       *)
(* report identifier that another open transaction has inserted waits for  *)
(* that transaction to end; one that a committed row has fails.  A step is  *)
(* get_connection, the SELECT, the INSERTs, or the commit, and each may     *)
(* fail.                                                                   *)
(***************************************************************************)
MaxWriters == 2

WriterIds == 1..MaxWriters

\* error: what made the call raise, "" when it has not
IdleWriter ==
    [pc |-> "idle", report_data |-> NoReport, passed |-> FALSE, ret |-> FALSE,
     error |-> ""]

InitWriters ==
    /\ InitProgram
    /\ input = NoInput
    /\ output = NoOutput
    /\ writers = [w \in WriterIds |-> IdleWriter]

\* the call is over: it returned ret, or raised when error is not ""
Done(writer, ret, error) == [writer EXCEPT !.pc = "done", !.ret = ret, !.error = error]

\* line 156: store_report(report_data) is called and opens its connection
WriterCall(w) ==
    /\ writers[w].pc = "idle"
    /\ \E report_data \in Reports :
         \/ writers' = [writers EXCEPT ![w] = [@ EXCEPT !.pc = "select",
                                                        !.report_data = report_data]]
         \/ writers' = [writers EXCEPT ![w] =
                          Done([@ EXCEPT !.report_data = report_data], FALSE, "connection")]
    /\ UNCHANGED <<db, last, input, output>>
    /\ UNCHANGED liveVars
    /\ UNCHANGED batchVars

\* lines 160-166: the existence check on the committed rows
WriterSelect(w) ==
    /\ writers[w].pc = "select"
    /\ \/ writers' = [writers EXCEPT ![w] = Done(@, FALSE, "select")]
       \/ writers' = [writers EXCEPT ![w] =
                        IF SelectReport(db, @.report_data.report_id) # {}
                        THEN Done(@, FALSE, "")
                        ELSE [@ EXCEPT !.pc = "insert", !.passed = TRUE]]
    /\ UNCHANGED <<db, last, input, output>>
    /\ UNCHANGED liveVars
    /\ UNCHANGED batchVars

\* another open transaction has inserted the report identifier
Waits(w) ==
    \E v \in WriterIds \ {w} :
       /\ writers[v].pc = "commit"
       /\ writers[v].report_data.report_id = writers[w].report_data.report_id

\* lines 169-219: the INSERTs; the first fails when the identifier has a
\* committed row, and any may fail; the except clause rolls back and raises
WriterInsert(w) ==
    /\ writers[w].pc = "insert"
    /\ ~Waits(w)
    /\ IF reports_report_id_key(db, writers[w].report_data.report_id)
       THEN writers' = [writers EXCEPT ![w] = Done(@, FALSE, "unique_violation")]
       ELSE \/ writers' = [writers EXCEPT ![w] = [@ EXCEPT !.pc = "commit"]]
            \/ writers' = [writers EXCEPT ![w] = Done(@, FALSE, "insert")]
    /\ UNCHANGED <<db, last, input, output>>
    /\ UNCHANGED liveVars
    /\ UNCHANGED batchVars

\* lines 221-228: conn.commit() makes the rows visible and the call returns
\* True, or it fails and the except clause rolls back and raises
WriterCommit(w) ==
    /\ writers[w].pc = "commit"
    /\ \E failed \in BOOLEAN :
         \E tx \in {Execute(db, writers[w].report_data,
                            Statements(writers[w].report_data), 0, 0)} :
           /\ db' = EndTransaction(db, tx, failed)
           /\ writers' = [writers EXCEPT ![w] =
                            Done(@, ~failed, IF failed THEN "commit" ELSE "")]
    /\ UNCHANGED <<last, input, output>>
    /\ UNCHANGED liveVars
    /\ UNCHANGED batchVars

WritersNext ==
    \E w \in WriterIds :
       \/ WriterCall(w)
       \/ WriterSelect(w)
       \/ WriterInsert(w)
       \/ WriterCommit(w)

SpecWriters == InitWriters /\ [][WritersNext]_vars

(***************************************************************************)
(* Properties of the store                                                 *)
(***************************************************************************)
\* the report whose raw_xml is key
ReportOf(key) == parse_xml(RawBytes(key)).report

RECURSIVE SumLen(_, _, _)
SumLen(records, field, i) ==
    IF i > Len(records) THEN 0
    ELSE Len(records[i][field]) + SumLen(records, field, i + 1)

\* the row counts of the four report tables
Counts(d) ==
    [reports |-> Cardinality(d.reports), records |-> Cardinality(d.records),
     dkim_auth |-> Cardinality(d.dkim_auth), spf_auth |-> Cardinality(d.spf_auth)]

\* the row counts after one aggregate of report_data was added to d
CountsWith(d, report_data) ==
    [reports |-> Cardinality(d.reports) + 1,
     records |-> Cardinality(d.records) + Len(report_data.records),
     dkim_auth |-> Cardinality(d.dkim_auth) + SumLen(report_data.records, "dkim_auths", 1),
     spf_auth |-> Cardinality(d.spf_auth) + SumLen(report_data.records, "spf_auths", 1)]

Marked(d) == {r.message_id : r \in d.processed_emails}

\* C1: store_report(R) called when no reports row carries R.report_id and
\* the database executes every statement returns True and adds exactly one
\* reports row, one records row per record of R and one dkim_auth/spf_auth
\* row per auth result; a store_report(R) that follows it immediately
\* returns False and leaves the four row counts as they were.
C1_IdempotentStore ==
    [][ /\ (last'.op = "store_report" /\ ~last'.existed /\ ~last'.failed)
             => /\ last'.ret
                /\ ~last'.raised
                /\ Counts(db') = CountsWith(db, ReportOf(last'.key))
        /\ (/\ last.op = "store_report" /\ last.ret
            /\ last'.op = "store_report" /\ last'.key = last.key /\ ~last'.failed)
             => /\ ~last'.ret
                /\ ~last'.raised
                /\ Counts(db') = Counts(db)
      ]_vars

\* the report of two records was stored and a second call with it has just
\* returned False
C1_Witness ==
    /\ last.op = "store_report"
    /\ last.key = "A2"
    /\ last.existed /\ ~last.ret /\ ~last.raised
    /\ \E r \in db.reports : r.raw_xml = "A2"
    /\ Counts(db) = CountsWith(EmptyDb, ReportOf("A2"))

\* every reports row of d has the rows of its whole aggregate, and no
\* records or auth row is without its parent
Complete(d) ==
    /\ \A r \in d.reports :
         LET report_data == ReportOf(r.raw_xml)
             rows        == {x \in d.records : x.report_id = r.id}
         IN  /\ Cardinality(rows) = Len(report_data.records)
             /\ \A i \in 1..Len(report_data.records) :
                  \E x \in rows :
                    /\ x = RecordRow(x.id, r.id, report_data.records[i])
                    /\ Cardinality({a \in d.dkim_auth : a.record_id = x.id})
                         = Len(report_data.records[i].dkim_auths)
                    /\ Cardinality({a \in d.spf_auth : a.record_id = x.id})
                         = Len(report_data.records[i].spf_auths)
    /\ \A x \in d.records : \E r \in d.reports : x.report_id = r.id
    /\ \A a \in d.dkim_auth \cup d.spf_auth : \E x \in d.records : a.record_id = x.id

\* C2: store_report is all-or-nothing: when the database fails a statement
\* of the call (the reports INSERT, a records, dkim_auth or spf_auth INSERT,
\* the commit), the tables are after the call what they were before it and
\* the call raises; in every reachable state each reports row has its
\* complete aggregate and no other row exists.
C2_AllOrNothing ==
    /\ []Complete(db)
    /\ [][(last'.op = "store_report" /\ last'.failed)
            => (db' = db /\ last'.raised /\ ~last'.ret)]_vars

\* a call for a report not stored yet has just failed after the store held
\* a report already
C2_Witness ==
    /\ last.op = "store_report"
    /\ last.failed /\ last.raised /\ ~last.existed
    /\ last.key = "A2"
    /\ Cardinality(db.reports) = 1

\* C3: under single-writer operation the reports table holds at most one
\* row per report identifier after any sequence of live cycles and batch
\* imports, and an attempt to store an identifier that is stored already
\* returns False without an error and changes neither the store nor the
\* counts of the run.
C3_UniqueReportId ==
    /\ [](\A r1, r2 \in db.reports : r1.report_id = r2.report_id => r1 = r2)
    /\ [][(last'.op = "store_report" /\ last'.existed /\ ~last'.failed)
            => /\ ~last'.ret
               /\ ~last'.raised
               /\ db' = db
               /\ processed_count' = processed_count
               /\ total_imported' = total_imported]_vars

\* a live cycle has attempted a payload whose identifier a row with another
\* payload carries
C3_Witness ==
    /\ last.op = "store_report"
    /\ last.key = "A2"
    /\ last.existed /\ ~last.ret /\ ~last.raised
    /\ pc = "parts"
    /\ \E r \in db.reports : r.report_id = "abc123" /\ r.raw_xml = "A"

\* C4: mark_email_processed is idempotent per message identifier:
\* processed_emails never holds two rows of one identifier, a call for an
\* identifier that has a row changes nothing and raises no error, a call the
\* database does not fail leaves the identifier marked, a marked identifier
\* stays marked, and is_email_processed answers whether it is marked.
C4_IdempotentMark ==
    /\ [](\A r1, r2 \in db.processed_emails : r1.message_id = r2.message_id => r1 = r2)
    /\ [][ /\ (last'.op = "mark_email_processed" /\ last'.existed)
                => (db' = db /\ (~last'.failed => ~last'.raised))
           /\ (last'.op = "mark_email_processed" /\ ~last'.failed)
                => last'.key \in Marked(db')
           /\ Marked(db) \subseteq Marked(db')
           /\ (last'.op = "is_email_processed" /\ ~last'.failed)
                => (~last'.raised /\ last'.ret = (last'.key \in Marked(db)))
         ]_vars

\* an identifier marked by the manual source has been marked again
C4_Witness ==
    /\ last.op = "mark_email_processed"
    /\ last.existed /\ ~last.failed /\ ~last.raised
    /\ Cardinality({r \in db.processed_emails : r.message_id = last.key}) = 1
    /\ \E r \in db.processed_emails : r.message_id = last.key /\ r.source = "manual"

\* C5: a write operation of the store (store_report, mark_email_processed)
\* whose write the database fails rolls back and raises to its caller; none
\* returns normally after its write failed.
C5_WriteFailuresPropagate ==
    [][(last'.op \in {"store_report", "mark_email_processed"} /\ last'.failed)
         => (last'.raised /\ db' = db)]_vars

(***************************************************************************)
(* Properties of the live fetcher                                          *)
(***************************************************************************)
\* the attachment report.zip whose archive holds a.xml and b.xml
ZipTwoPart == Part("application", "attachment", <<"report", ".zip">>, ZipTwo)

\* the identifiers of the reports in the entries of ZipTwo
ZipTwoIds == {ReportOf(ZipTwo.entries[i].data).report_id : i \in 1..Len(ZipTwo.entries)}

\* C6: container fan-out: when the fetcher handles a .zip attachment whose
\* archive holds two .xml entries with distinct valid reports, neither
\* stored yet, and the database fails nothing, both reports are stored and
\* the run's count grows by two.
C6_ContainerFanOut ==
    [][(/\ pc = "parts"
        /\ part' = ZipTwoPart
        /\ ZipTwoIds \cap ReportIds(db) = {}
        /\ ~last'.failed)
         => /\ ZipTwoIds \subseteq ReportIds(db')
            /\ processed_count' = processed_count + 2]_vars

\* the fetcher leaves the parts of an email (a KeyboardInterrupt apart) by
\* calling mark_email_processed for the email, and the email is marked when
\* the database does not fail the call
MarkFollowsWalk ==
    (pc = "parts" /\ pc' \notin {"parts", "interrupted"})
      => /\ pc' = "fetch"
         /\ outcome' \in {"marked", "mark_failed"}
         /\ last'.op = "mark_email_processed"
         /\ last'.key = MessageId(msg, email_id)
         /\ ~last'.failed => last'.key \in Marked(db')

\* C7: partial-failure isolation: a corrupt attachment (a corrupt zip or
\* gzip, an XML that does not parse) does not end the walk of its email; a
\* valid attachment of the email, before or after the corrupt one, whose
\* report is not stored yet and whose store call the database does not
\* fail, is stored and counted as new; and when the walk of an email with a
\* corrupt and a valid attachment is over, the valid report is stored and
\* the email is marked.
C7_PartialFailureIsolation ==
    [][ /\ MarkFollowsWalk
        /\ (pc = "parts" /\ hist'.valid \ hist.valid # {})
             => /\ processed_count' = processed_count + 1
                /\ hist'.valid \subseteq ReportIds(db')
                /\ Cardinality(db'.reports) = Cardinality(db.reports) + 1
        /\ (pc = "parts" /\ hist.corrupt /\ hist.valid # {})
             => hist.valid \subseteq ReportIds(db')
      ]_vars

\* an email with a corrupt attachment first and a valid one after it has
\* been handled: the report is stored and counted, the email is marked
C7_Witness ==
    /\ outcome = "marked"
    /\ hist.corrupt
    /\ hist.valid = {"r-2"}
    /\ "r-2" \in ReportIds(db) /\ "abc123" \notin ReportIds(db)
    /\ processed_count = 1
    /\ last.op = "mark_email_processed" /\ last.key \in Marked(db)

\* C8: every email that was fetched and found not yet processed is walked
\* to the end, whatever its parts are, and the mark is issued then and only
\* then: the step after the walk calls mark_email_processed for it, which
\* marks it when the database does not fail that call.
C8_MarkedAfterWalk ==
    [][ /\ (last'.op = "is_email_processed" /\ ~last'.raised /\ ~last'.ret)
             => (pc' = "parts" /\ outcome' = "processing")
        /\ MarkFollowsWalk
        /\ (last'.op = "mark_email_processed") => (pc = "parts" /\ part_no >= 1)
      ]_vars

\* an email whose only attachment was corrupt has been marked and nothing
\* of it was stored
C8_Witness ==
    /\ outcome = "marked"
    /\ hist.corrupt
    /\ hist.valid = {}
    /\ processed_count = 0
    /\ db.reports = {}
    /\ last.op = "mark_email_processed" /\ ~last.existed /\ last.key \in Marked(db)

\* C9: an email whose message identifier is in processed_emails is skipped
\* entirely: the step that finds it goes on to the next email without
\* walking its parts and leaves the five tables and the run's count as they
\* were.
C9_ProcessedEmailSkipped ==
    [][(pc = "fetch" /\ last'.op = "is_email_processed" /\ last'.existed /\ ~last'.failed)
         => /\ outcome' = "skipped"
            /\ pc' = "fetch"
            /\ email_id' = email_id + 1
            /\ part_no' = 0
            /\ db' = db
            /\ processed_count' = processed_count]_vars

\* a marked email was skipped while the store held no report at all
C9_Witness ==
    /\ outcome = "skipped"
    /\ last.op = "is_email_processed" /\ last.existed /\ last.ret
    /\ last.key \in Marked(db)
    /\ db.reports = {}

\* C10: the loop of main goes on: after a cycle that raised the fetcher is
\* in the 60 s backoff, after a cycle that returned it sleeps the poll
\* interval, and unless it is interrupted a new cycle starts after each.
C10_LoopLiveness ==
    /\ [](cycle = "raised" => (pc = "backoff" /\ seconds = 60))
    /\ [](cycle = "returned" => (pc = "sleep" /\ seconds = 3600))
    /\ (cycle \in {"raised", "returned"}) ~> (pc = "connect" \/ pc = "interrupted")

\* a cycle has raised and the fetcher waits to retry
C10_Witness ==
    /\ cycle = "raised"
    /\ pc = "backoff"
    /\ seconds = 60

(***************************************************************************)
(* Properties of error handling                                            *)
(***************************************************************************)
\* the step is line 343 raising: mail.fetch failed for the email at hand
FetchFailed == pc = "fetch" /\ outcome' = "fetch_failed" /\ email_id' = email_id + 1

\* C11: a transport failure (connect, search, close, or the fetch of one
\* message in the middle of a cycle) ends the current cycle, which handles
\* no further email, and leaves main in its back-off sleep, from which the
\* whole cycle is retried; the process does not end.
C11_TransportErrorEndsCycle ==
    [][(cycle' = "raised" \/ FetchFailed)
         => cycle' = "raised" /\ pc' = "backoff" /\ seconds' = BackoffSeconds]_vars

\* the step is a call of store_report that raised, made for an attachment
\* of the email at hand or for a content of the file at hand
StoreRaised ==
    /\ pc = "parts" \/ bpc = "contents"
    /\ last'.op = "store_report"
    /\ last'.raised

Absent(element, tag) == ~element.present \/ element[tag] = NONE

\* parse_xml has been called on the tree `input.root`
Parsed == input.kind = "tree" /\ output.stage \in {"parsed", "stored"}

DateRangeOf(root) ==
    IF root.report_metadata.present THEN root.report_metadata.date_range
    ELSE [present |-> FALSE]

\* a required field of the tree is absent
RequiredAbsent(root) ==
    \/ Absent(root.report_metadata, "report_id")
    \/ Absent(root.report_metadata, "org_name")
    \/ Absent(DateRangeOf(root), "begin")
    \/ Absent(DateRangeOf(root), "end")
    \/ Absent(root.policy_published, "domain")
    \/ Absent(root.policy_published, "p")

\* C13: parse_xml raises, and returns no report, whenever the report
\* identifier, a bound of the date range, the org name, the policy-published
\* domain or the policy p is absent; no report with an empty report
\* identifier, org name, domain or p is returned, and none is stored.
C13_RequiredFields ==
    /\ Parsed /\ RequiredAbsent(input.root) => ~output.ok
    /\ Parsed /\ output.ok =>
         /\ output.report.report_id # ""
         /\ output.report.org_name # ""
         /\ output.report.domain # ""
         /\ output.report.p # ""
    /\ \A r \in db.reports :
         r.report_id # "" /\ r.org_name # "" /\ r.domain # "" /\ r.p # ""

\* the text of a child that is present
Given(element, tag) == element.present /\ element[tag] # NONE

\* every record element has a row with a numeric count
RecordsComplete(root) ==
    \A i \in 1..Len(root.records) :
       /\ root.records[i].row.present
       /\ IsIntText(_get_text(root.records[i].row, "count", "0"))

\* a report that is valid but for its policy-published sp, pct, adkim and
\* aspf: the required fields are there, the bounds of the date range are
\* numbers and the records are complete
OtherwiseValid(root) ==
    /\ ~RequiredAbsent(root)
    /\ IsIntText(DateRangeOf(root).begin)
    /\ IsIntText(DateRangeOf(root).end)
    /\ RecordsComplete(root)

\* C14: an otherwise valid report whose pct is absent or a number is
\* parsed, and every parsed report has sp equal to its p when the
\* policy-published element has no sp and the given sp otherwise, pct 100
\* when it has no pct and the given number otherwise.
C14_SpAndPctDefaults ==
    Parsed =>
      LET policy_pub == input.root.policy_published
      IN  /\ /\ OtherwiseValid(input.root)
             /\ Absent(policy_pub, "pct") \/ IsIntText(policy_pub.pct)
             => output.ok
          /\ output.ok =>
               /\ Absent(policy_pub, "sp") =>
                    output.report.sp = output.report.p
               /\ Given(policy_pub, "sp") =>
                    output.report.sp = policy_pub.sp
               /\ Absent(policy_pub, "pct") => output.report.pct = 100
               /\ Given(policy_pub, "pct") =>
                    output.report.pct = IntOf[policy_pub.pct]

\* an otherwise valid report with p = reject and neither sp nor pct has been
\* parsed
C14_Witness ==
    /\ Parsed
    /\ OtherwiseValid(input.root)
    /\ Absent(input.root.policy_published, "sp")
    /\ Absent(input.root.policy_published, "pct")
    /\ output.ok
    /\ output.report.p = "reject"
    /\ output.report.sp = "reject"
    /\ output.report.pct = 100

C16_NonNumericPct ==
    /\ Parsed
    /\ OtherwiseValid(input.root)
    /\ Given(input.root.policy_published, "pct")
    /\ ~IsIntText(input.root.policy_published.pct)
    => output.ok /\ output.report.pct = 100

\* the source IP the record element gives, empty when it has no row or its
\* row no source_ip
SourceIpOf(record) ==
    IF Absent(record.row, "source_ip") THEN "" ELSE record.row.source_ip

\* the counts that are given are numbers
CountsNumeric(root) ==
    \A i \in 1..Len(root.records) :
       Given(root.records[i].row, "count") => IsIntText(root.records[i].row.count)

\* C17: a report that is valid but for records lacking their row or their
\* source_ip is parsed, and the parsed report has one record per record
\* element, in document order: the i-th has the source IP of the i-th
\* element, empty when that has no row or no source_ip.
C17_OneRecordPerElement ==
    /\ Parsed
    /\ ~RequiredAbsent(input.root)
    /\ IsIntText(DateRangeOf(input.root).begin)
    /\ IsIntText(DateRangeOf(input.root).end)
    /\ Absent(input.root.policy_published, "pct")
         \/ IsIntText(input.root.policy_published.pct)
    /\ CountsNumeric(input.root)
    => /\ output.ok
       /\ Len(output.report.records) = Len(input.root.records)
       /\ \A i \in 1..Len(input.root.records) :
            output.report.records[i].source_ip = SourceIpOf(input.root.records[i])

\* header_from, envelope_from and envelope_to of a parsed record or a
\* stored row
Envelope(r) == <<r.header_from, r.envelope_from, r.envelope_to>>

\* what C18 says the envelope of a record element is
EnvelopeOf(record) ==
    LET identifiers == record.identifiers
    IN  <<identifiers.header_from,
          IF Given(identifiers, "envelope_from") THEN identifiers.envelope_from
          ELSE identifiers.header_from,
          IF Given(identifiers, "envelope_to") THEN identifiers.envelope_to
          ELSE "">>

\* the record elements with a header_from
WithHeaderFrom(root) ==
    {i \in 1..Len(root.records) : Given(root.records[i].identifiers, "header_from")}

\* C18: in a parsed report, a record whose identifiers have header_from
\* has envelope_from equal to header_from when envelope_from is absent and
\* envelope_to empty when envelope_to is absent, and the given
\* envelope_from and envelope_to otherwise; when the report is stored, its
\* rows of the records table have the same values.
C18_EnvelopeDefaults ==
    Parsed /\ output.ok =>
      /\ \A i \in WithHeaderFrom(input.root) :
           Envelope(output.report.records[i]) = EnvelopeOf(input.root.records[i])
      /\ output.stage = "stored" /\ last.ret /\ WithHeaderFrom(input.root) = 1..Len(input.root.records) =>
           /\ Cardinality(db.records) = Len(input.root.records)
           /\ {Envelope(r) : r \in db.records}
                = {EnvelopeOf(input.root.records[i]) : i \in 1..Len(input.root.records)}

\* a report whose first record has header_from alone and whose second has
\* all three has been parsed and stored
C18_Witness ==
    /\ Parsed
    /\ output.stage = "stored"
    /\ last.ret
    /\ Len(input.root.records) = 2
    /\ input.root.records[1].identifiers = Identifiers("example.com", NONE, NONE)
    /\ Given(input.root.records[2].identifiers, "envelope_from")
    /\ Given(input.root.records[2].identifiers, "envelope_to")
    /\ \E r \in db.records :
         Envelope(r) = <<"example.com", "example.com", "">>

(***************************************************************************)
(* Properties of the extractors                                            *)
(***************************************************************************)
\* both extractors have been called on the name and content of `input`
Extracted == input.kind = "bytes" /\ output.stage = "extracted"

\* the last component of the file name, NONE when there is no name
SuffixOf(filename) == IF filename = <<>> THEN NONE ELSE filename[Len(filename)]

\* neither extractor returned a buffer
NothingExtracted == output.attachment = NoneBytes /\ output.file = <<>>

\* bytes that zipfile.ZipFile does not open
NoArchive(content) == ~(content.kind = "zip" /\ content.valid)

\* bytes that are neither a gzip stream nor empty
NoStream(content) == ~(content.kind = "gzip" /\ content.valid) /\ content # RawBytes("")

\* C19: both extractors return a value for every name and content.  Without
\* a name, or with a name ending in none of .zip, .gz, .xml, they return
\* nothing, whatever the content is; with a name ending in .xml they return
\* the content unchanged, whatever it is; with a name ending in .zip and a
\* content that is no readable archive, or ending in .gz and a content that
\* is no gzip stream, they return nothing.
C19_ExtractorDispatch ==
    Extracted =>
      LET suffix  == SuffixOf(input.filename)
          content == input.content
      IN  /\ suffix \notin {".zip", ".gz", ".xml"} => NothingExtracted
          /\ suffix = ".xml" =>
               output.attachment = content /\ output.file = <<content>>
          /\ suffix = ".zip" /\ NoArchive(content) => NothingExtracted
          /\ suffix = ".gz" /\ NoStream(content) => NothingExtracted

\* the extractors have been given a truncated gzip stream named report.xml.gz
C19_Witness ==
    /\ Extracted
    /\ input.filename = <<"report", ".xml", ".gz">>
    /\ input.content = CorruptGzip
    /\ NothingExtracted

(***************************************************************************)
(* Properties of the counts                                                *)
(***************************************************************************)
\* the step is a call of store_report that returned True
Inserted ==
    /\ pc = "parts" \/ bpc = "contents"
    /\ last'.op = "store_report"
    /\ last'.ret

RowsAdded == Cardinality(db'.reports) - Cardinality(db.reports)

\* C20: a run starts with its count at 0; each of its steps adds to the
\* count the number of rows it adds to the reports table, which is 1 when
\* the step is a call of store_report that returned True and 0 otherwise (the
\* report existed, was not parsed, or the store failed); the count the run
\* returns is the count it has reached.  So the count never exceeds the
\* number of reports rows, and a report met twice in a run is counted once.
C20_CountIsInserted ==
    /\ [](/\ cycle \in {"running", "returned"} =>
               processed_count <= Cardinality(db.reports)
          /\ bpc # "idle" => total_imported <= Cardinality(db.reports))
    /\ [][/\ cycle # "running" /\ cycle' = "running" =>
               processed_count' = 0 /\ RowsAdded = 0
          /\ cycle = "running" /\ cycle' = "running" =>
               /\ processed_count' - processed_count = RowsAdded
               /\ RowsAdded = IF Inserted THEN 1 ELSE 0
          /\ cycle = "running" /\ cycle' = "returned" =>
               processed_count' = processed_count /\ RowsAdded = 0
          /\ bpc = "idle" /\ bpc' # "idle" =>
               total_imported' = 0 /\ RowsAdded = 0
          /\ bpc # "idle" /\ bpc' # "idle" =>
               /\ total_imported' - total_imported = RowsAdded
               /\ RowsAdded = IF Inserted THEN 1 ELSE 0
          /\ bpc # "idle" /\ bpc' = "idle" =>
               total_imported' = total_imported /\ RowsAdded = 0]_vars

\* a run has stored a report, counted it, and met it again: store_report
\* found the row and the count is still 1
C20_Witness ==
    /\ last.op = "store_report"
    /\ last.existed
    /\ ~last.ret
    /\ Cardinality(db.reports) = 1
    /\ \/ cycle = "running" /\ processed_count = 1
       \/ bpc # "idle" /\ total_imported = 1

(***************************************************************************)
(* Properties of the batch importer                                        *)
(***************************************************************************)
\* the step is one of a batch run
BatchStep == bpc # "idle" \/ bpc' # "idle"

\* the report of the content import_file handles next, if it parses
NextContent == parse_xml(Head(bqueue))

\* C21: no step of a batch run calls is_email_processed or
\* mark_email_processed, and none changes processed_emails.  A content
\* whose report identifier has a row is not counted and changes no table,
\* and a content whose store call the database did not fail has a row
\* afterwards: so a second import of files whose first import met no
\* database failure counts 0 and leaves the five tables as they were.
C21_BatchHasNoMarker ==
    [][BatchStep =>
         /\ db'.processed_emails = db.processed_emails
         /\ last'.op \notin {"is_email_processed", "mark_email_processed"}
         /\ bpc = "contents" =>
              /\ NextContent.ok /\ NextContent.report.report_id \in ReportIds(db) =>
                   db' = db /\ total_imported' = total_imported
              /\ NextContent.ok /\ ~last'.failed =>
                   NextContent.report.report_id \in ReportIds(db')]_vars

\* a batch run has come to its end having met only reports that an earlier
\* run stored, while processed_emails holds the fetcher's markers
C21_Witness ==
    /\ bpc = "files"
    /\ bfiles = 0
    /\ total_imported = 0
    /\ last.op = "store_report"
    /\ last.existed
    /\ Cardinality(db.reports) = 2
    /\ db.processed_emails # {}

(***************************************************************************)
(* Properties of concurrent writers                                        *)
(***************************************************************************)
\* two writers whose calls are over, both for the report identifier of the
\* first, and both past the existence check
BothPassed(w, v) ==
    /\ w # v
    /\ writers[w].pc = "done" /\ writers[v].pc = "done"
    /\ writers[w].passed /\ writers[v].passed
    /\ writers[w].report_data.report_id = writers[v].report_data.report_id

\* C22: whatever the interleaving of the writers, the reports table has at
\* most one row per report identifier and every row has its complete
\* aggregate; of two writers that both passed the existence check for one
\* identifier at most one returned True, its payload is the one stored, and
\* the other raised (it did not return False) and left no row.
C22_ConcurrentWriters ==
    /\ \A r1, r2 \in db.reports : r1.report_id = r2.report_id => r1 = r2
    /\ Complete(db)
    /\ \A w, v \in WriterIds :
         BothPassed(w, v) /\ writers[w].ret =>
           /\ ~writers[v].ret
           /\ writers[v].error # ""
           /\ \E r \in db.reports : r.raw_xml = writers[w].report_data.raw_xml
           /\ \A r \in db.reports : r.raw_xml # writers[v].report_data.raw_xml
                                    \/ writers[v].report_data = writers[w].report_data

\* two writers passed the check with two payloads of one identifier; the
\* first committed and the second's INSERT failed on the constraint
C22_Witness ==
    /\ BothPassed(1, 2)
    /\ writers[1].report_data.raw_xml = "A"
    /\ writers[2].report_data.raw_xml = "A2"
    /\ writers[1].ret
    /\ writers[2].error = "unique_violation"
    /\ Cardinality(db.reports) = 1

(***************************************************************************)
(* Properties of the part filter                                           *)
(***************************************************************************)
\* the step handles the next part of the walk
PartHandled == pc = "parts" /\ part_no' = part_no + 1

\* C23: a part whose Content-Disposition does not mark it as an attachment
\* (it has none, or it is inline) is ignored whatever its file name is: no
\* call of the store is made for it, no table changes and nothing is
\* counted.
C23_OnlyAttachments ==
    [][PartHandled /\ part'.disposition # "attachment" =>
         /\ last' = NoCall
         /\ db' = db
         /\ processed_count' = processed_count]_vars

(***************************************************************************)
(* Properties of the stored reports                                        *)
(***************************************************************************)
\* every row of the four report tables is still there, with its values
RowsKept ==
    /\ db.reports \subseteq db'.reports
    /\ db.records \subseteq db'.records
    /\ db.dkim_auth \subseteq db'.dkim_auth
    /\ db.spf_auth \subseteq db'.spf_auth

\* the step is a call of store_report for an identifier that has a row
StoredAgain ==
    /\ pc = "parts" \/ bpc = "contents"
    /\ last'.op = "store_report"
    /\ last'.existed

\* C24: no step of the fetcher or of the importer removes or changes a row
\* of reports, records, dkim_auth or spf_auth, and a call of store_report
\* for an identifier that has a row, whatever its payload, changes no
\* table; an identifier never has two rows.  So the row of an identifier,
\* its records and its auth rows keep the values of the first successful
\* store.
C24_FirstWriteWins ==
    /\ [](\A r1, r2 \in db.reports : r1.report_id = r2.report_id => r1 = r2)
    /\ [][RowsKept /\ (StoredAgain => db' = db)]_vars

\* the report of payload A is stored and the store was then given payload
\* A2, which has the same identifier: the row is still the one of A
C24_Witness ==
    /\ last.op = "store_report"
    /\ last.existed
    /\ last.key = "A2"
    /\ \E r \in db.reports : r.raw_xml = "A" /\ r.org_name = "google.com"
    /\ \A r \in db.reports : r.raw_xml # "A2"

\* the row x of records holds the values of the parsed record
SameRecord(x, record) ==
    /\ x.source_ip = record.source_ip
    /\ x.count = record.count
    /\ x.disposition = record.disposition
    /\ x.dkim_result = record.dkim_result
    /\ x.spf_result = record.spf_result
    /\ Envelope(x) = Envelope(record)

\* the rows of dkim_auth and of spf_auth that reference the row x are, one
\* for one, the auth results of the parsed record
SameAuths(d, x, record) ==
    LET dkims == {a \in d.dkim_auth : a.record_id = x.id}
        spfs  == {a \in d.spf_auth : a.record_id = x.id}
    IN  /\ Cardinality(dkims) = Len(record.dkim_auths)
        /\ \A j \in 1..Len(record.dkim_auths) :
             \E a \in dkims :
               /\ a.domain = record.dkim_auths[j].domain
               /\ a.selector = record.dkim_auths[j].selector
               /\ a.result = record.dkim_auths[j].result
               /\ a.human_result = record.dkim_auths[j].human_result
        /\ Cardinality(spfs) = Len(record.spf_auths)
        /\ \A j \in 1..Len(record.spf_auths) :
             \E a \in spfs :
               /\ a.domain = record.spf_auths[j].domain
               /\ a.scope = record.spf_auths[j].scope
               /\ a.result = record.spf_auths[j].result

\* no two rows of the table share an id
IdsUnique(table) == \A x, y \in table : x.id = y.id => x = y

\* C25: in every state the tables are in between two calls, the ids of a
\* table are unique, every records row references a reports row, every
\* dkim_auth and spf_auth row references a records row, and the rows that
\* reference a reports row are those of the report parsed from the payload
\* the row keeps: one records row per record, and per record one auth row
\* per auth result, with their values.
C25_ReferentialIntegrity ==
    /\ IdsUnique(db.reports) /\ IdsUnique(db.records)
    /\ IdsUnique(db.dkim_auth) /\ IdsUnique(db.spf_auth)
    /\ \A x \in db.records : \E r \in db.reports : x.report_id = r.id
    /\ \A a \in db.dkim_auth \cup db.spf_auth : \E x \in db.records : a.record_id = x.id
    /\ \A r \in db.reports :
         LET report_data == ReportOf(r.raw_xml)
             rows        == {x \in db.records : x.report_id = r.id}
         IN  /\ r.report_id = report_data.report_id
             /\ Cardinality(rows) = Len(report_data.records)
             /\ \A i \in 1..Len(report_data.records) :
                  \E x \in rows :
                    /\ SameRecord(x, report_data.records[i])
                    /\ SameAuths(db, x, report_data.records[i])

\* the reports of payloads A2 (two records, one with a DKIM and an SPF
\* result) and B (one record) are both stored
C25_Witness ==
    /\ {r.raw_xml : r \in db.reports} = {"A2", "B"}
    /\ Cardinality(db.records) = 3
    /\ Cardinality(db.dkim_auth) = 1
    /\ Cardinality(db.spf_auth) = 1

(***************************************************************************)
(* Properties of re-processing                                             *)
(***************************************************************************)
\* the step is the call of mark_email_processed that ends the walk
MarkCalled == pc = "parts" /\ last'.op = "mark_email_processed"

\* the step is a call of is_email_processed that returned
Checked == pc = "fetch" /\ last'.op = "is_email_processed" /\ ~last'.raised

\* the reports row r has as many records, dkim_auth and spf_auth rows as
\* its report has records and auth results: none was inserted twice
StoredOnce(d, r) ==
    LET report_data == ReportOf(r.raw_xml)
        rows        == {x \in d.records : x.report_id = r.id}
    IN  /\ Cardinality(rows) = Len(report_data.records)
        /\ Cardinality({a \in d.dkim_auth : \E x \in rows : a.record_id = x.id})
             = SumLen(report_data.records, "dkim_auths", 1)
        /\ Cardinality({a \in d.spf_auth : \E x \in rows : a.record_id = x.id})
             = SumLen(report_data.records, "spf_auths", 1)

\* C26: when the database fails mark_email_processed the email stays
\* unmarked and the cycle goes on with the next email; an email that is not
\* marked is processed when a cycle meets it; a report of it that has a row
\* is then neither stored again nor counted; and a call of
\* mark_email_processed that the database does not fail leaves the email
\* marked.  In no state has a report identifier two rows, or a reports row
\* more records or auth rows than its report has.
C26_ReprocessingIsSafe ==
    /\ [](/\ \A r1, r2 \in db.reports : r1.report_id = r2.report_id => r1 = r2
          /\ \A r \in db.reports : StoredOnce(db, r))
    /\ [][/\ MarkCalled /\ last'.failed =>
               /\ db' = db
               /\ cycle' = "running"
               /\ pc' = "fetch"
               /\ email_id' = email_id + 1
          /\ MarkCalled /\ ~last'.failed => last'.key \in Marked(db')
          /\ Checked /\ ~last'.existed => pc' = "parts" /\ outcome' = "processing"
          /\ PartHandled /\ last'.op = "store_report" /\ last'.existed =>
               db' = db /\ processed_count' = processed_count]_vars

\* the mark of an email of which a report is stored has failed: the email
\* is not marked and the cycle is at the next email
C26_Witness ==
    /\ outcome = "mark_failed"
    /\ last.op = "mark_email_processed"
    /\ last.failed
    /\ last.key \notin Marked(db)
    /\ db.reports # {}
    /\ pc = "fetch"
    /\ cycle = "running"

\* C27: when store_report raises for an attachment the walk of the email
\* goes on with its remaining parts and nothing is stored for that
\* attachment; the walk of an email for which store_report raised ends, as
\* every walk does, with the call of mark_email_processed, which leaves the
\* email marked unless the database fails that call too; and an email that
\* is marked is not processed again: the check that finds its row makes no
\* part of it be handled.  So the report is absent until it comes again.
C27_FailedStoreNotRetried ==
    [][/\ PartHandled /\ last'.op = "store_report" /\ last'.raised =>
            /\ db' = db
            /\ hist'.store_failed
            /\ pc' = "parts"
            /\ outcome' = "processing"
            /\ email_id' = email_id
       /\ pc = "parts" /\ pc' = "fetch" /\ hist.store_failed =>
            /\ last'.op = "mark_email_processed"
            /\ last'.key = MessageId(msg, email_id)
            /\ ~last'.failed => last'.key \in Marked(db')
            /\ db'.reports = db.reports
       /\ pc = "fetch" /\ last'.op = "is_email_processed" /\ last'.existed =>
            /\ pc' = "fetch"
            /\ email_id' = email_id + 1
            /\ db' = db
            /\ processed_count' = processed_count]_vars

\* store_report raised for the report of an attachment of an email; the
\* email has been marked and the report is not stored
C27_Witness ==
    /\ outcome = "marked"
    /\ hist.store_failed
    /\ last.op = "mark_email_processed"
    /\ ~last.failed
    /\ last.key \in Marked(db)
    /\ db.reports = {}
    /\ processed_count = 0

=============================================================================
